---- MODULE Spec2Model ----
(***************************************************************************)
(* Model of the attention-drift-detector backend (src/backend): the event *)
(* store (data_store.py), the three ingestion handlers and the summary    *)
(* handler with its scoring pipeline (main.py), and code grading          *)
(* (code_tasks.py).                                                       *)
(*                                                                         *)
(* Numbers.  A Python float or int is a reduced fraction <<n, d>>, d > 0. *)
(* None is the empty tuple, NaN is <<0, 0>>.  +, - and * are exact; the   *)
(* float division operator `/`, statistics.mean and the square root in    *)
(* statistics.pstdev round their exact result down to a multiple of       *)
(* 1/Scale, as binary64 rounds to 53 bits.  The metrics clients post are   *)
(* finite; NaN occurs as an argument of normalize_* only.                  *)
(***************************************************************************)
EXTENDS Integers, Sequences, FiniteSets, TLC

VARIABLES data_file, resp, call

vars == <<data_file, resp, call>>

(***************************************************************************)
(* Arithmetic                                                              *)
(***************************************************************************)
Scale == 10 * 10

None == <<>>

NaN == <<0, 0>>

Abs(i) == IF i < 0 THEN -i ELSE i

RECURSIVE GCD(_, _)
GCD(a, b) == IF b = 0 THEN a ELSE GCD(b, a % b)

Rat(n, d) ==
    LET s == IF d < 0 THEN -1 ELSE 1
        g == GCD(Abs(n), Abs(d))
    IN  <<(s * n) \div g, (s * d) \div g>>

R(i) == <<i, 1>>

IsNum(x) == Len(x) = 2 /\ x[2] > 0

isnan(x) == x = NaN

RAdd(a, b) == Rat(a[1] * b[2] + b[1] * a[2], a[2] * b[2])

RSub(a, b) == Rat(a[1] * b[2] - b[1] * a[2], a[2] * b[2])

RMul(a, b) ==
    LET x == Rat(a[1], b[2])
        y == Rat(b[1], a[2])
    IN  Rat(x[1] * y[1], x[2] * y[2])

RLt(a, b) == a[1] * b[2] < b[1] * a[2]

RLe(a, b) == a[1] * b[2] <= b[1] * a[2]

RAbs(a) == <<Abs(a[1]), a[2]>>

RMin(a, b) == IF RLe(a, b) THEN a ELSE b

RMax(a, b) == IF RLe(a, b) THEN b ELSE a

\* The first digits of r/m after the point, as many as k has zeros, as one
\* integer (0 <= r < m, k a power of ten).
RECURSIVE Digits(_, _, _)
Digits(r, m, k) ==
    IF k = 1 THEN 0
    ELSE LET t == (r * 10) \div m
         IN  t * (k \div 10) + Digits((r * 10) % m, m, k \div 10)

\* floor(num/den * k) for den > 0, without forming num * k.
FloorTimes(num, den, k) == (num \div den) * k + Digits(num % den, den, k)

\* Python's a / b on floats: ZeroDivisionError when b is zero.
ZeroDivisionError == <<1, 0>>

FDiv(a, b) ==
    IF b[1] = 0 THEN ZeroDivisionError
    ELSE LET x == Rat(a[1], b[1])
             y == Rat(b[2], a[2])
             q == Rat(x[1] * y[1], x[2] * y[2])
         IN  Rat(FloorTimes(q[1], q[2], Scale), Scale)

\* The largest r in lo..hi with r * r <= x (lo * lo <= x < (hi + 1)^2).
RECURSIVE IsqrtIn(_, _, _)
IsqrtIn(x, lo, hi) ==
    IF lo = hi THEN lo
    ELSE LET mid == (lo + hi + 1) \div 2
         IN  IF mid <= x \div mid THEN IsqrtIn(x, mid, hi)
             ELSE IsqrtIn(x, lo, mid - 1)

Isqrt(x) ==
    LET top == 256 * 256
    IN  IF x = 0 THEN 0 ELSE IsqrtIn(x, 1, IF x < top THEN x ELSE top)

SqrtFine == 2 * 100 * 1000

\* math.sqrt of q >= 0, rounded down to a multiple of 1/Scale (to a whole
\* number from SqrtFine on, where the finer result would not fit an integer).
Sqrt(q) ==
    LET whole == q[1] \div q[2]
    IN  IF whole >= SqrtFine THEN R(Isqrt(whole))
        ELSE Rat(Isqrt(FloorTimes(q[1], q[2], Scale * Scale)), Scale)

(***************************************************************************)
(* statistics.mean and statistics.pstdev                                   *)
(***************************************************************************)
RECURSIVE Sum(_)
Sum(xs) == IF xs = <<>> THEN R(0) ELSE RAdd(Head(xs), Sum(Tail(xs)))

RECURSIVE SumSq(_)
SumSq(xs) ==
    IF xs = <<>> THEN R(0) ELSE RAdd(RMul(Head(xs), Head(xs)), SumSq(Tail(xs)))

RECURSIVE SeqMin(_)
SeqMin(xs) ==
    IF Len(xs) = 1 THEN xs[1] ELSE RMin(xs[1], SeqMin(Tail(xs)))

RECURSIVE SeqMax(_)
SeqMax(xs) ==
    IF Len(xs) = 1 THEN xs[1] ELSE RMax(xs[1], SeqMax(Tail(xs)))

mean(xs) == FDiv(Sum(xs), R(Len(xs)))

\* The population variance, exact.  It does not change when every value is
\* shifted by the same amount; the values are taken relative to the first,
\* d = x - xs[1], and the variance is (n * sum(d^2) - sum(d)^2) / n^2.
pvariance(xs) ==
    LET d == [i \in 1..Len(xs) |-> RSub(xs[i], xs[1])]
        n == R(Len(xs))
        s == Sum(d)
        v == RSub(RMul(n, SumSq(d)), RMul(s, s))
    IN  Rat(v[1], v[2] * Len(xs) * Len(xs))

pstdev(xs) == Sqrt(pvariance(xs))

(***************************************************************************)
(* main.py: compute_basic_stats                                            *)
(***************************************************************************)
EmptyStats ==
    [count |-> 0, avg_ms |-> None, std_ms |-> None, min_ms |-> None, max_ms |-> None]

\* compute_basic_stats taking the deviation only from three values on.
compute_basic_stats_late_std(values) ==
    IF values = <<>> THEN EmptyStats
    ELSE [count  |-> Len(values),
          avg_ms |-> mean(values),
          std_ms |-> IF Len(values) > 2 THEN pstdev(values) ELSE R(0),
          min_ms |-> SeqMin(values),
          max_ms |-> SeqMax(values)]

compute_basic_stats(values) ==
    IF values = <<>> THEN EmptyStats
    ELSE [count  |-> Len(values),
          avg_ms |-> mean(values),
          std_ms |-> IF Len(values) > 1 THEN pstdev(values) ELSE R(0),
          min_ms |-> SeqMin(values),
          max_ms |-> SeqMax(values)]

(***************************************************************************)
(* main.py: normalize_inverse, normalize_direct, safe_cv                   *)
(***************************************************************************)
Half == <<1, 2>>

\* normalize_inverse with the interpolation not subtracted from 1.0.
normalize_inverse_not_inverted(value, good_low, bad_high) ==
    IF value = None \/ isnan(value) THEN Half
    ELSE IF RLe(value, good_low) THEN R(1)
    ELSE IF RLe(bad_high, value) THEN R(0)
    ELSE FDiv(RSub(value, good_low), RSub(bad_high, good_low))

normalize_inverse(value, good_low, bad_high) ==
    IF value = None \/ isnan(value) THEN Half
    ELSE IF RLe(value, good_low) THEN R(1)
    ELSE IF RLe(bad_high, value) THEN R(0)
    ELSE LET q == FDiv(RSub(value, good_low), RSub(bad_high, good_low))
         IN  IF q = ZeroDivisionError THEN q ELSE RSub(R(1), q)

\* normalize_direct without the `value >= good_high` clamp.
normalize_direct_unclamped(value, bad_low, good_high) ==
    IF value = None \/ isnan(value) THEN Half
    ELSE IF RLe(value, bad_low) THEN R(0)
    ELSE FDiv(RSub(value, bad_low), RSub(good_high, bad_low))

normalize_direct(value, bad_low, good_high) ==
    IF value = None \/ isnan(value) THEN Half
    ELSE IF RLe(value, bad_low) THEN R(0)
    ELSE IF RLe(good_high, value) THEN R(1)
    ELSE FDiv(RSub(value, bad_low), RSub(good_high, bad_low))

\* safe_cv that guards against a missing mean only.
safe_cv_unguarded(avg, std) ==
    IF avg = None \/ std = None THEN None
    ELSE FDiv(std, avg)

safe_cv(avg, std) ==
    IF avg = None \/ std = None \/ RLe(avg, R(0)) THEN None
    ELSE FDiv(std, avg)

(***************************************************************************)
(* Records.  A dict is a TLA+ record; a request body is a record too.     *)
(***************************************************************************)
Get(e, k) == IF k \in DOMAIN e THEN e[k] ELSE None

\* [e[k] for e in xs]
Field(xs, k) == [i \in 1..Len(xs) |-> xs[i][k]]

\* sum(1 for e in events if e.get("is_correct") is True)
RECURSIVE CountCorrect(_)
CountCorrect(events) ==
    IF events = <<>> THEN 0
    ELSE (IF "is_correct" \in DOMAIN Head(events) /\ Head(events).is_correct = TRUE
          THEN 1 ELSE 0) + CountCorrect(Tail(events))

\* pydantic BaseModel: a body lacking a required field is rejected; the
\* model keeps the declared fields only, an absent optional one as None.
Rejected == [rejected |-> TRUE]

\* A model configured with extra = "allow": undeclared fields are kept.
ValidateKeepingExtras(body, required, optional) ==
    IF required \subseteq DOMAIN body
    THEN [k \in DOMAIN body \cup optional |-> IF k \in DOMAIN body THEN body[k] ELSE None]
    ELSE Rejected

Validate(body, required, optional) ==
    IF required \subseteq DOMAIN body
    THEN [k \in required \cup optional |-> IF k \in DOMAIN body THEN body[k] ELSE None]
    ELSE Rejected

SegmentEvent(body) ==
    Validate(body,
             {"session_id", "segment_id", "text_length", "reading_time_ms"},
             {"client_timestamp_ms"})

ReactionEvent(body) ==
    Validate(body,
             {"session_id", "question_index", "reaction_time_ms", "is_correct"},
             {"client_timestamp_ms", "chosen_option_index"})

CodeSubmission(body) ==
    Validate(body,
             {"session_id", "exercise_id", "code", "total_time_ms"},
             {"first_key_delay_ms", "client_timestamp_ms", "code_length",
              "starter_code_length", "typing_duration_ms"})

(***************************************************************************)
(* data_store.py.  data.json is a text of lines, laid out as               *)
(* json.dump(data, f, indent=2) lays it out: "[]" for the empty list,      *)
(* otherwise "[", then for each dict "{", one line per key and "}", then   *)
(* "]".  A scalar is written and read back as the same scalar (repr of a   *)
(* float round-trips), so a line holds the value itself.  A file of no     *)
(* lines is one opened for writing and not yet written and closed.         *)
(***************************************************************************)
Line(tok) == [tok |-> tok, key |-> "", value |-> None]

Pair(key, value) == [tok |-> "pair", key |-> key, value |-> value]

\* Insertion order of the keys of event.dict() (main.py 23-43) and of the
\* graded code event (code_tasks.py 5-17, main.py 108-118).
DictOrder ==
    <<"session_id", "segment_id", "text_length", "reading_time_ms",
      "question_index", "reaction_time_ms", "is_correct",
      "client_timestamp_ms", "chosen_option_index",
      "exercise_id", "code", "total_time_ms", "first_key_delay_ms",
      "code_length", "starter_code_length", "typing_duration_ms",
      "type", "tests_passed", "tests_failed", "grading_error">>

CodeDictOrder ==
    <<"session_id", "exercise_id", "code", "total_time_ms", "first_key_delay_ms",
      "client_timestamp_ms", "code_length", "starter_code_length",
      "typing_duration_ms", "type", "is_correct", "tests_passed", "tests_failed",
      "grading_error",
      "segment_id", "text_length", "reading_time_ms", "question_index",
      "reaction_time_ms", "chosen_option_index">>

Keys(e) ==
    LET Has(k) == k \in DOMAIN e
    IN  SelectSeq(IF "type" \in DOMAIN e THEN CodeDictOrder ELSE DictOrder, Has)

\* The lines of one dict.
ObjectLines(e) ==
    <<Line("{")>> \o [i \in 1..Len(Keys(e)) |-> Pair(Keys(e)[i], e[Keys(e)[i]])]
                  \o <<Line("}")>>

RECURSIVE ArrayLines(_)
ArrayLines(data) ==
    IF Len(data) = 0 THEN <<>>
    ELSE ObjectLines(Head(data)) \o ArrayLines(Tail(data))

\* json.dump(data, f, indent=2): the text written
json_dump(data) ==
    IF Len(data) = 0 THEN <<Line("[]")>>
    ELSE <<Line("[")>> \o ArrayLines(data) \o <<Line("]")>>

JSONDecodeError == [raised |-> "JSONDecodeError"]

\* The dict of the key lines text[from..to]; a repeated key keeps its last value.
RECURSIVE ObjectOf(_, _, _)
ObjectOf(text, from, to) ==
    IF to < from THEN <<>>
    ELSE IF to = from THEN text[to].key :> text[to].value
    ELSE (text[to].key :> text[to].value) @@ ObjectOf(text, from, to - 1)

\* The line that closes the dict opened before line i: the first line from i
\* on that is not a key line.
RECURSIVE EndOfObject(_, _)
EndOfObject(text, i) ==
    IF i > Len(text) \/ text[i].tok # "pair" THEN i ELSE EndOfObject(text, i + 1)

\* The dicts of text[i..], which must be dicts up to the closing "]" on the
\* last line.
RECURSIVE ParseObjects(_, _, _)
ParseObjects(text, i, data) ==
    IF i = Len(text)
    THEN IF text[i].tok = "]"
         THEN [error |-> FALSE, data |-> data]
         ELSE [error |-> TRUE, data |-> JSONDecodeError]
    ELSE IF i > Len(text) \/ text[i].tok # "{"
    THEN [error |-> TRUE, data |-> JSONDecodeError]
    ELSE LET end == EndOfObject(text, i + 1)
         IN  IF end > Len(text) \/ text[end].tok # "}"
             THEN [error |-> TRUE, data |-> JSONDecodeError]
             ELSE ParseObjects(text, end + 1,
                               Append(data, ObjectOf(text, i + 1, end - 1)))

\* json.load(f): the list the text holds, or JSONDecodeError
json_load(text) ==
    IF Len(text) = 0 THEN [error |-> TRUE, data |-> JSONDecodeError]
    ELSE IF text[1].tok = "[]"
    THEN IF Len(text) = 1 THEN [error |-> FALSE, data |-> <<>>]
         ELSE [error |-> TRUE, data |-> JSONDecodeError]
    ELSE IF text[1].tok = "["
    THEN ParseObjects(text, 2, <<>>)
    ELSE [error |-> TRUE, data |-> JSONDecodeError]

NoFile == [exists |-> FALSE, text |-> <<>>]

\* open(DATA_FILE, "w"): the file is created or emptied
open_w(file) == [exists |-> TRUE, text |-> <<>>]

\* The text is written from the start of the file when the file is closed;
\* what another writer left beyond its end stays.
write_close(file, text) ==
    [exists |-> TRUE,
     text |-> text \o SubSeq(file.text, Len(text) + 1, Len(file.text))]

\* save_event with data.insert(0, event) for data.append(event).
save_event_inserting_first(file, event) ==
    LET created == IF file.exists THEN file
                   ELSE write_close(open_w(file), json_dump(<<>>))
        data == json_load(created.text).data
    IN  write_close(open_w(created), json_dump(<<event>> \o data))

\* The file after save_event(event) has run alone.
save_event(file, event) ==
    LET created == IF file.exists THEN file
                   ELSE write_close(open_w(file), json_dump(<<>>))
        data == json_load(created.text).data
    IN  write_close(open_w(created), json_dump(Append(data, event)))

load_all_events(file) ==
    IF file.exists THEN json_load(file.text).data ELSE <<>>

get_events_by_session(file, session_id) ==
    LET Mine(e) == Get(e, "session_id") = session_id
    IN  SelectSeq(load_all_events(file), Mine)

(***************************************************************************)
(* code_tasks.py.  A submission's code is a Python text; what exec and the *)
(* tests do with it is tabulated for the texts the model submits.         *)
(***************************************************************************)
Str(t) == <<t>>

CodeOk == "def add_two(x): return x + 2"

CodeAbs == "def add_two(x): return abs(x) + 2"

CodeDiv == "def add_two(x): return x + 2 + 0 // (x + 1)"

CodeSyntax == "def add_two(x) return"

CodeNoFunc == "y = 2"

CodeNotCallable == "add_two = 2"

CodeReverse == "def reverse_string(s): return s[::-1]"

CodeExit == "raise SystemExit"

CodeExitInTest == "def add_two(x): raise SystemExit"

CodeTexts ==
    {CodeOk, CodeAbs, CodeDiv, CodeSyntax, CodeNoFunc, CodeNotCallable, CodeReverse,
     CodeExit, CodeExitInTest}

\* exec(code, {}, namespace) raises an Exception
ExecRaises(code) == code = CodeSyntax

\* exec(code, {}, namespace) raises a BaseException that is not an Exception
ExecExits(code) == code = CodeExit

\* the names exec leaves in namespace, and those of them that are callable
Namespace(code) ==
    CASE code \in {CodeOk, CodeAbs, CodeDiv, CodeNotCallable, CodeExitInTest} -> {"add_two"}
      [] code = CodeReverse -> {"reverse_string"}
      [] code = CodeNoFunc -> {"y"}
      [] OTHER -> {}

Callable(code) ==
    CASE code \in {CodeOk, CodeAbs, CodeDiv, CodeExitInTest} -> {"add_two"}
      [] code = CodeReverse -> {"reverse_string"}
      [] OTHER -> {}

\* func(*args) on test i of the exercise: "pass" (result == expected),
\* "fail" (another result), "raise" (an Exception) or "exit" (a
\* BaseException that `except Exception` lets through)
RunTest(code, func_name, i) ==
    CASE code = CodeOk -> "pass"
      [] code = CodeExitInTest -> "exit"
      [] code = CodeReverse -> "pass"
      [] code = CodeAbs -> IF i = 2 THEN "fail" ELSE "pass"
      [] code = CodeDiv -> IF i = 2 THEN "raise" ELSE "pass"
      [] OTHER -> "raise"

Exercises == {"add_two", "reverse_string", "sum_list"}

ValueError == [raised |-> "ValueError"]

SystemExit == [raised |-> "SystemExit"]

_get_tests_for_exercise(exercise_id) ==
    IF exercise_id = "add_two"
    THEN [func_name |-> "add_two", tests |-> <<"3 -> 5", "-1 -> 1", "10 -> 12">>]
    ELSE IF exercise_id = "reverse_string"
    THEN [func_name |-> "reverse_string",
          tests |-> <<"abc -> cba", " -> ", "hello -> olleh">>]
    ELSE IF exercise_id = "sum_list"
    THEN [func_name |-> "sum_list", tests |-> <<"[1,2,3] -> 6", "[] -> 0", "[5,-2,10] -> 13">>]
    ELSE ValueError

RECURSIVE CountOutcome(_, _, _, _)
CountOutcome(code, func_name, n, wanted) ==
    IF n = 0 THEN 0
    ELSE (IF RunTest(code, func_name, n) \in wanted THEN 1 ELSE 0)
         + CountOutcome(code, func_name, n - 1, wanted)

grade_code(submission) ==
    LET code == submission.code
        exercise_id == submission.exercise_id
        t == _get_tests_for_exercise(exercise_id)
    IN  IF "raised" \in DOMAIN t
        THEN [is_correct |-> FALSE, tests_passed |-> R(0), tests_failed |-> None,
              error |-> Str("Unknown exercise_id")]
        ELSE IF ExecExits(code)
        THEN SystemExit
        ELSE IF ExecRaises(code)
        THEN [is_correct |-> FALSE, tests_passed |-> R(0),
              tests_failed |-> R(Len(t.tests)), error |-> Str("Code execution error")]
        ELSE IF t.func_name \notin Namespace(code) \/ t.func_name \notin Callable(code)
        THEN [is_correct |-> FALSE, tests_passed |-> R(0),
              tests_failed |-> R(Len(t.tests)),
              error |-> Str("Function is not defined correctly.")]
        ELSE IF CountOutcome(code, t.func_name, Len(t.tests), {"exit"}) > 0
        THEN SystemExit
        ELSE LET passed == CountOutcome(code, t.func_name, Len(t.tests), {"pass"})
                 failed == CountOutcome(code, t.func_name, Len(t.tests), {"fail", "raise"})
             IN  [is_correct |-> (failed = 0), tests_passed |-> R(passed),
                  tests_failed |-> R(failed), error |-> None]

(***************************************************************************)
(* main.py: compute_concentration_profile                                  *)
(***************************************************************************)
\* key=lambda e: e.get("question_index", 0)
QuestionKey(e) == IF "question_index" \in DOMAIN e THEN e.question_index ELSE R(0)

\* sorted(events, key=...): Python's sort is stable; an insertion sort here.
RECURSIVE InsertByKey(_, _)
InsertByKey(sorted, e) ==
    IF sorted = <<>> THEN <<e>>
    ELSE LET last == sorted[Len(sorted)]
         IN  IF RLe(QuestionKey(last), QuestionKey(e))
             THEN Append(sorted, e)
             ELSE Append(InsertByKey(SubSeq(sorted, 1, Len(sorted) - 1), e), last)

RECURSIVE SortedByQuestionIndex(_)
SortedByQuestionIndex(events) ==
    IF events = <<>> THEN <<>>
    ELSE InsertByKey(SortedByQuestionIndex(SubSeq(events, 1, Len(events) - 1)),
                     events[Len(events)])

HasReactionTime(e) == "reaction_time_ms" \in DOMAIN e

\* TrendComponent on the events in stored order, without the sort.
TrendComponentUnsorted(reaction_events) ==
    IF Len(reaction_events) >= 4
    THEN LET times == Field(SelectSeq(reaction_events, HasReactionTime), "reaction_time_ms")
         IN  IF Len(times) >= 4
             THEN LET mid == Len(times) \div 2
                      first_half == SubSeq(times, 1, mid)
                      second_half == SubSeq(times, mid + 1, Len(times))
                  IN  IF first_half # <<>> /\ second_half # <<>>
                         /\ RLt(R(0), mean(first_half))
                      THEN LET ratio == FDiv(mean(second_half), mean(first_half))
                               drift == RAbs(RSub(ratio, R(1)))
                           IN  normalize_inverse(drift, <<1, 10>>, <<6, 10>>)
                      ELSE Half
             ELSE Half
    ELSE Half

\* main.py 212-239
TrendComponent(reaction_events) ==
    IF Len(reaction_events) >= 4
    THEN LET sorted_reactions == SortedByQuestionIndex(reaction_events)
             times == Field(SelectSeq(sorted_reactions, HasReactionTime), "reaction_time_ms")
         IN  IF Len(times) >= 4
             THEN LET mid == Len(times) \div 2
                      first_half == SubSeq(times, 1, mid)
                      second_half == SubSeq(times, mid + 1, Len(times))
                  IN  IF first_half # <<>> /\ second_half # <<>>
                         /\ RLt(R(0), mean(first_half))
                      THEN LET ratio == FDiv(mean(second_half), mean(first_half))
                               drift == RAbs(RSub(ratio, R(1)))
                           IN  normalize_inverse(drift, <<1, 10>>, <<6, 10>>)
                      ELSE Half
             ELSE Half
    ELSE Half

\* main.py 203-207, 350-354
ReactionAccuracy(reaction_events) ==
    IF reaction_events # <<>>
    THEN FDiv(R(CountCorrect(reaction_events)), R(Len(reaction_events)))
    ELSE None

HasFirstKeyDelay(e) == Get(e, "first_key_delay_ms") # None

\* main.py 255-266
InitiationStability(code_events) ==
    LET delays == Field(SelectSeq(code_events, HasFirstKeyDelay), "first_key_delay_ms")
    IN  IF Len(delays) > 1
        THEN normalize_inverse(pstdev(delays), R(1500), R(6000))
        ELSE Half

\* main.py 279-284
OverallComment(overall_score) ==
    IF RLe(R(80), overall_score) THEN "high"
    ELSE IF RLe(R(60), overall_score) THEN "moderate"
    ELSE "relatively low"

WeakReading == "Reading times are less stable compared to reaction and code tasks."

WeakReaction == "Reaction times show lower stability or accuracy compared to other tasks."

WeakCode == "Code-writing behavior (initiation or typing) appears less consistent than other tasks."

Balanced == "No single task stands out as significantly weaker; performance is fairly balanced across tasks."

\* Details flagging a task that trails either of the other two.
DetailsTrailingEither(reading_score, reaction_score, code_score) ==
    LET Trails(a, b, c) == RLt(RAdd(a, R(10)), b) \/ RLt(RAdd(a, R(10)), c)
        details ==
            (IF Trails(reading_score, reaction_score, code_score)
             THEN <<WeakReading>> ELSE <<>>)
            \o (IF Trails(reaction_score, reading_score, code_score)
                THEN <<WeakReaction>> ELSE <<>>)
            \o (IF Trails(code_score, reading_score, reaction_score)
                THEN <<WeakCode>> ELSE <<>>)
    IN  IF details = <<>> THEN <<Balanced>> ELSE details

\* main.py 286-298: the diagnostic sentences, in the order they are appended
Details(reading_score, reaction_score, code_score) ==
    LET Trails(a, b, c) == RLt(RAdd(a, R(10)), b) /\ RLt(RAdd(a, R(10)), c)
        details ==
            (IF Trails(reading_score, reaction_score, code_score)
             THEN <<WeakReading>> ELSE <<>>)
            \o (IF Trails(reaction_score, reading_score, code_score)
                THEN <<WeakReaction>> ELSE <<>>)
            \o (IF Trails(code_score, reading_score, reaction_score)
                THEN <<WeakCode>> ELSE <<>>)
    IN  IF details = <<>> THEN <<Balanced>> ELSE details

\* OverallScore with the weights of reading and reaction exchanged.
OverallScoreSwapped(reading_score, reaction_score, code_score) ==
    RAdd(RAdd(RMul(<<4, 10>>, reading_score), RMul(<<3, 10>>, reaction_score)),
         RMul(<<3, 10>>, code_score))

\* main.py 271-275
OverallScore(reading_score, reaction_score, code_score) ==
    RAdd(RAdd(RMul(<<3, 10>>, reading_score), RMul(<<4, 10>>, reaction_score)),
         RMul(<<3, 10>>, code_score))

\* main.py 277-300: the comment, as the list of its sentences (the code joins
\* them with spaces)
Comment(reading_score, reaction_score, code_score) ==
    <<OverallComment(OverallScore(reading_score, reaction_score, code_score))>>
    \o Details(reading_score, reaction_score, code_score)

compute_concentration_profile(reading_stats, reaction_stats, reaction_events, code_summary, code_events) ==
    LET reading_cv == safe_cv(Get(reading_stats, "avg_ms"), Get(reading_stats, "std_ms"))
        reading_stability == normalize_inverse(reading_cv, <<1, 10>>, <<7, 10>>)
        reading_score == RMul(reading_stability, R(100))
        reaction_cv == safe_cv(Get(reaction_stats, "avg_ms"), Get(reaction_stats, "std_ms"))
        reaction_stability == normalize_inverse(reaction_cv, <<15, 100>>, <<8, 10>>)
        reaction_accuracy == ReactionAccuracy(reaction_events)
        accuracy_component == normalize_direct(reaction_accuracy, <<5, 10>>, <<9, 10>>)
        trend_component == TrendComponent(reaction_events)
        reaction_combined ==
            FDiv(RAdd(RAdd(reaction_stability, accuracy_component), trend_component), R(3))
        reaction_score == RMul(reaction_combined, R(100))
        success_rate == Get(code_summary, "success_rate")
        success_component == normalize_direct(success_rate, <<3, 10>>, <<9, 10>>)
        avg_typing_rate == Get(code_summary, "avg_typing_rate_chars_per_sec")
        typing_component == normalize_direct(avg_typing_rate, R(2), R(12))
        initiation_stability == InitiationStability(code_events)
        code_combined ==
            FDiv(RAdd(RAdd(success_component, typing_component), initiation_stability), R(3))
        code_score == RMul(code_combined, R(100))
        overall_score == OverallScore(reading_score, reaction_score, code_score)
    IN  [overall_score |-> overall_score,
         reading_score |-> reading_score,
         reaction_score |-> reaction_score,
         code_score |-> code_score,
         components |->
             [reading_stability_cv |-> reading_cv,
              reaction_cv |-> reaction_cv,
              reaction_accuracy |-> reaction_accuracy,
              reaction_trend_component |-> trend_component,
              code_success_rate |-> success_rate,
              code_avg_typing_rate_chars_per_sec |-> avg_typing_rate],
         comment |-> Comment(reading_score, reaction_score, code_score)]

(***************************************************************************)
(* main.py: get_summary                                                    *)
(***************************************************************************)
\* HasTypingRate without the `delta_chars > 0` test.
HasTypingRateAnyDelta(e) ==
    LET td == Get(e, "typing_duration_ms")
        code_len == Get(e, "code_length")
        starter_len == Get(e, "starter_code_length")
    IN  /\ td # None
        /\ RLt(R(0), td)
        /\ code_len # None
        /\ starter_len # None

\* main.py 384-394: the submission yields a typing-rate sample
HasTypingRate(e) ==
    LET td == Get(e, "typing_duration_ms")
        code_len == Get(e, "code_length")
        starter_len == Get(e, "starter_code_length")
    IN  /\ td # None
        /\ RLt(R(0), td)
        /\ code_len # None
        /\ starter_len # None
        /\ RLt(R(0), RSub(code_len, starter_len))

\* main.py 393-395: delta_chars / (td / 1000.0)
TypingRate(e) ==
    FDiv(RSub(e.code_length, e.starter_code_length),
         FDiv(e.typing_duration_ms, R(1000)))

TypingRates(events) ==
    LET timed == SelectSeq(events, HasTypingRate)
    IN  [i \in 1..Len(timed) |-> TypingRate(timed[i])]

HasTotalTime(e) == "total_time_ms" \in DOMAIN e

StatsOrEmpty(values) == IF values # <<>> THEN compute_basic_stats(values) ELSE EmptyStats

SuccessRate(events) ==
    IF events # <<>> THEN FDiv(R(CountCorrect(events)), R(Len(events))) ELSE None

\* main.py 423-478: one exercise's entry of the per-exercise breakdown
PerExercise(ex_events) ==
    LET ex_time_stats == compute_basic_stats(Field(SelectSeq(ex_events, HasTotalTime), "total_time_ms"))
        ex_first_key_stats ==
            StatsOrEmpty(Field(SelectSeq(ex_events, HasFirstKeyDelay), "first_key_delay_ms"))
        ex_typing_rates == TypingRates(ex_events)
    IN  [count_submissions |-> Len(ex_events),
         success_rate |-> SuccessRate(ex_events),
         avg_total_time_ms |-> ex_time_stats.avg_ms,
         avg_first_key_delay_ms |-> ex_first_key_stats.avg_ms,
         avg_typing_rate_chars_per_sec |->
             IF ex_typing_rates # <<>>
             THEN compute_basic_stats(ex_typing_rates).avg_ms
             ELSE None]

\* main.py 357-497
CodeSummary(code_events) ==
    IF code_events # <<>>
    THEN LET total_time_stats ==
                 compute_basic_stats(Field(SelectSeq(code_events, HasTotalTime), "total_time_ms"))
             first_key_stats ==
                 StatsOrEmpty(Field(SelectSeq(code_events, HasFirstKeyDelay), "first_key_delay_ms"))
             typing_rate_stats == StatsOrEmpty(TypingRates(code_events))
             ex_ids == {Get(code_events[i], "exercise_id") : i \in 1..Len(code_events)}
         IN  [count_submissions |-> Len(code_events),
              success_rate |-> SuccessRate(code_events),
              avg_total_time_ms |-> total_time_stats.avg_ms,
              std_total_time_ms |-> total_time_stats.std_ms,
              avg_first_key_delay_ms |-> first_key_stats.avg_ms,
              avg_typing_rate_chars_per_sec |-> typing_rate_stats.avg_ms,
              per_exercise |->
                  [ex \in ex_ids |->
                      LET OfEx(e) == Get(e, "exercise_id") = ex
                      IN  PerExercise(SelectSeq(code_events, OfEx))]]
    ELSE [count_submissions |-> 0,
          success_rate |-> None,
          avg_total_time_ms |-> None,
          std_total_time_ms |-> None,
          avg_first_key_delay_ms |-> None,
          per_exercise |-> <<>>]

IsReading(e) == "segment_id" \in DOMAIN e

IsReaction(e) == "question_index" \in DOMAIN e

IsCode(e) == "exercise_id" \in DOMAIN e

\* main.py 333-529: the summary of a non-empty list of events
Summarise(session_id, events) ==
    LET reading_events == SelectSeq(events, IsReading)
        reaction_events == SelectSeq(events, IsReaction)
        code_events == SelectSeq(events, IsCode)
        reading_stats == compute_basic_stats(Field(reading_events, "reading_time_ms"))
        reaction_stats ==
            compute_basic_stats(Field(SelectSeq(reaction_events, HasReactionTime), "reaction_time_ms"))
        code_summary == CodeSummary(code_events)
    IN  [session_id |-> session_id,
         reading |->
             [count_segments |-> reading_stats.count,
              avg_reading_time_ms |-> reading_stats.avg_ms,
              std_reading_time_ms |-> reading_stats.std_ms,
              min_reading_time_ms |-> reading_stats.min_ms,
              max_reading_time_ms |-> reading_stats.max_ms],
         reaction |->
             [count_questions |-> reaction_stats.count,
              avg_reaction_time_ms |-> reaction_stats.avg_ms,
              std_reaction_time_ms |-> reaction_stats.std_ms,
              min_reaction_time_ms |-> reaction_stats.min_ms,
              max_reaction_time_ms |-> reaction_stats.max_ms,
              accuracy |-> ReactionAccuracy(reaction_events)],
         code |-> code_summary,
         concentration |->
             compute_concentration_profile(reading_stats, reaction_stats,
                                           reaction_events, code_summary, code_events)]

\* get_summary without the `if not events` test.
get_summary_unchecked(file, session_id) ==
    [op |-> "summary", session_id |-> session_id, status |-> 200,
     body |-> Summarise(session_id, get_events_by_session(file, session_id)),
     profile_computed |-> TRUE]

\* main.py 319-331: the response, and whether the profile was computed
get_summary(file, session_id) ==
    LET events == get_events_by_session(file, session_id)
    IN  IF events = <<>>
        THEN [op |-> "summary", session_id |-> session_id, status |-> 404,
              body |-> [detail |-> "No events for this session_id"],
              profile_computed |-> FALSE]
        ELSE [op |-> "summary", session_id |-> session_id, status |-> 200,
              body |-> Summarise(session_id, events),
              profile_computed |-> TRUE]

(***************************************************************************)
(* The handlers as actions                                                 *)
(***************************************************************************)
NoResp == [op |-> "none"]

NoCall == [fn |-> "none"]

UnprocessableEntity(op) == [op |-> op, status |-> 422]

\* An exception that leaves the handler: nothing is returned to the client
\* but an error.
InternalServerError(op) == [op |-> op, status |-> 500]

\* main.py 82-89
receive_segment(body) ==
    LET event == SegmentEvent(body)
    IN  /\ IF "rejected" \in DOMAIN event
           THEN /\ resp' = UnprocessableEntity("segment")
                /\ UNCHANGED data_file
           ELSE /\ data_file' = save_event(data_file, event)
                /\ resp' = [op |-> "segment", status |-> 200, body |-> [status |-> "saved"]]
        /\ UNCHANGED call

\* main.py 92-99
receive_reaction(body) ==
    LET event == ReactionEvent(body)
    IN  /\ IF "rejected" \in DOMAIN event
           THEN /\ resp' = UnprocessableEntity("reaction")
                /\ UNCHANGED data_file
           ELSE /\ data_file' = save_event(data_file, event)
                /\ resp' = [op |-> "reaction", status |-> 200, body |-> [status |-> "saved"]]
        /\ UNCHANGED call

\* The event saved as submission.dict(), before the grading result is put in.
GradedEventNotUpdated(submission, grading) ==
    [k \in DOMAIN submission \cup {"type"} |->
        IF k = "type" THEN "code" ELSE submission[k]]

\* main.py 108-118: submission.dict() updated with the grading result
GradedEvent(submission, grading) ==
    [k \in DOMAIN submission \cup
           {"type", "is_correct", "tests_passed", "tests_failed", "grading_error"} |->
        CASE k = "type" -> "code"
          [] k = "is_correct" -> Get(grading, "is_correct")
          [] k = "tests_passed" -> Get(grading, "tests_passed")
          [] k = "tests_failed" -> Get(grading, "tests_failed")
          [] k = "grading_error" -> Get(grading, "error")
          [] OTHER -> submission[k]]

\* main.py 102-126
receive_code(body) ==
    LET submission == CodeSubmission(body)
    IN  /\ IF "rejected" \in DOMAIN submission
           THEN /\ resp' = UnprocessableEntity("code")
                /\ UNCHANGED data_file
           ELSE LET grading == grade_code(submission)
                IN  IF "raised" \in DOMAIN grading
                    THEN /\ resp' = InternalServerError("code")
                         /\ UNCHANGED data_file
                    ELSE /\ data_file' = save_event(data_file,
                                                   GradedEvent(submission, grading))
                         /\ resp' = [op |-> "code", status |-> 200,
                                     body |-> [status |-> "saved",
                                               is_correct |-> Get(grading, "is_correct"),
                                               tests_passed |-> Get(grading, "tests_passed"),
                                               tests_failed |-> Get(grading, "tests_failed"),
                                               error |-> Get(grading, "error")]]
        /\ UNCHANGED call

\* main.py 319-529
summary(session_id) ==
    /\ resp' = get_summary(data_file, session_id)
    /\ UNCHANGED <<data_file, call>>

Stored == Len(load_all_events(data_file))

(***************************************************************************)
(* Spec: the four handlers, called one after another, on a store of at    *)
(* most MaxEvents records.                                                 *)
(***************************************************************************)
MaxEvents == 3

Sessions == {"s1", "s2"}

Segment(s, t) ==
    [session_id |-> s, segment_id |-> R(0), text_length |-> R(120), reading_time_ms |-> t]

Reaction(s, q, t, ok) ==
    [session_id |-> s, question_index |-> R(q), reaction_time_ms |-> R(t), is_correct |-> ok]

Code(s, ex, code) ==
    [session_id |-> s, exercise_id |-> ex, code |-> code, total_time_ms |-> R(30000)]

\* Bodies a client can post: well-formed ones, ones carrying fields of the
\* other event kinds, and ones lacking a required field.
SegmentBodies ==
    {Segment(s, R(100)) : s \in Sessions}
    \cup {Segment("s1", R(300)) @@ [question_index |-> R(1), exercise_id |-> "add_two"]}
    \cup {[session_id |-> "s1", segment_id |-> R(0), text_length |-> R(120)]}

ReactionBodies ==
    {Reaction(s, 1, 200, TRUE) : s \in Sessions}
    \cup {Reaction("s1", 2, 600, FALSE) @@ [segment_id |-> R(0), exercise_id |-> "add_two"]}
    \cup {[session_id |-> "s2", question_index |-> R(1), is_correct |-> TRUE]}

CodeBodies ==
    {Code("s1", "add_two", CodeOk), Code("s1", "unknown_exercise", CodeOk),
     Code("s2", "add_two", CodeSyntax)}
    \cup {Code("s2", "add_two", CodeAbs) @@ [segment_id |-> R(0), question_index |-> R(1),
                                             first_key_delay_ms |-> R(800)]}
    \cup {[session_id |-> "s1", exercise_id |-> "add_two", code |-> CodeOk]}

Init ==
    /\ data_file = NoFile
    /\ resp = NoResp
    /\ call = NoCall

Next ==
    \/ /\ Stored < MaxEvents
       /\ \E body \in SegmentBodies : receive_segment(body)
    \/ /\ Stored < MaxEvents
       /\ \E body \in ReactionBodies : receive_reaction(body)
    \/ /\ Stored < MaxEvents
       /\ \E body \in CodeBodies : receive_code(body)
    \/ \E session_id \in Sessions : summary(session_id)

Spec == Init /\ [][Next]_vars

(***************************************************************************)
(* Properties of Spec                                                      *)
(***************************************************************************)
\* The positions of the stored records of a session.
PositionsOf(session_id) ==
    LET events == load_all_events(data_file)
    IN  {i \in 1..Len(events) : events[i].session_id = session_id}

IsSummary == resp.op = "summary"

ProfileKeys ==
    {"overall_score", "reading_score", "reaction_score", "code_score", "components", "comment"}

CompleteSummary(body) ==
    /\ DOMAIN body = {"session_id", "reading", "reaction", "code", "concentration"}
    /\ DOMAIN body.concentration = ProfileKeys
    /\ \A k \in {"overall_score", "reading_score", "reaction_score", "code_score"} :
           IsNum(body.concentration[k])
    /\ Len(body.concentration.comment) >= 2

\* C1: a summary request for a session with no stored event is answered 404
\* and the concentration profile is not computed; a summary request for a
\* session with at least one stored event is answered with the complete
\* summary, concentration profile included.
C1_SummaryNeedsEvents ==
    IsSummary =>
        IF PositionsOf(resp.session_id) = {}
        THEN /\ resp.status = 404
             /\ ~resp.profile_computed
             /\ DOMAIN resp.body = {"detail"}
        ELSE /\ resp.status = 200
             /\ resp.profile_computed
             /\ CompleteSummary(resp.body)

\* A session without events is asked for while the other session has some.
C1_Witness ==
    /\ IsSummary
    /\ resp.status = 404
    /\ Stored >= 2
    /\ PositionsOf(resp.session_id) = {}

\* C10: every stored record passes exactly one of the three field-presence
\* tests, and a summary's three counts add up to the number of stored
\* records of its session.
KindsOf(e) ==
    (IF "segment_id" \in DOMAIN e THEN {"reading"} ELSE {})
    \cup (IF "question_index" \in DOMAIN e THEN {"reaction"} ELSE {})
    \cup (IF "exercise_id" \in DOMAIN e THEN {"code"} ELSE {})

C10_OneKindPerRecord ==
    /\ LET events == load_all_events(data_file)
       IN  \A i \in 1..Len(events) : Cardinality(KindsOf(events[i])) = 1
    /\ (IsSummary /\ resp.status = 200) =>
           resp.body.reading.count_segments + resp.body.reaction.count_questions
               + resp.body.code.count_submissions
           = Cardinality(PositionsOf(resp.session_id))

\* A summary of a session that holds records of all three kinds.
C10_Witness ==
    /\ IsSummary
    /\ resp.status = 200
    /\ resp.body.reading.count_segments >= 1
    /\ resp.body.reaction.count_questions >= 1
    /\ resp.body.code.count_submissions >= 1

(***************************************************************************)
(* SpecNorm: normalize_inverse and normalize_direct applied to two values *)
(* and a pair of bounds.                                                   *)
(***************************************************************************)
MaxNorm == 7

NormNumbers == {Rat(i, 2) : i \in -1..MaxNorm}

NormValues == {None, NaN} \cup NormNumbers

NormBounds == {R(0), R(1), <<3, 2>>, R(3)}

InitNorm ==
    /\ data_file = NoFile
    /\ resp = NoResp
    /\ call \in [fn : {"args"}, value : NormValues, value2 : NormNumbers,
                 low : NormBounds, high : NormBounds]

ApplyNormalizeInverse ==
    /\ call.fn = "args"
    /\ call' = [fn |-> "normalize_inverse", value |-> call.value, value2 |-> call.value2,
                low |-> call.low, high |-> call.high,
                out |-> normalize_inverse(call.value, call.low, call.high),
                out2 |-> normalize_inverse(call.value2, call.low, call.high)]
    /\ UNCHANGED <<data_file, resp>>

ApplyNormalizeDirect ==
    /\ call.fn = "args"
    /\ call' = [fn |-> "normalize_direct", value |-> call.value, value2 |-> call.value2,
                low |-> call.low, high |-> call.high,
                out |-> normalize_direct(call.value, call.low, call.high),
                out2 |-> normalize_direct(call.value2, call.low, call.high)]
    /\ UNCHANGED <<data_file, resp>>

NextNorm == ApplyNormalizeInverse \/ ApplyNormalizeDirect

SpecNorm == InitNorm /\ [][NextNorm]_vars

Normalized == call.fn \in {"normalize_inverse", "normalize_direct"}

InUnit(x) == IsNum(x) /\ RLe(R(0), x) /\ RLe(x, R(1))

\* The end the function clamps to at or below the low bound, and the other.
AtLow == IF call.fn = "normalize_inverse" THEN R(1) ELSE R(0)

AtHigh == IF call.fn = "normalize_inverse" THEN R(0) ELSE R(1)

\* C4 as stated: total with a result in [0,1], 0.5 for a null value,
\* normalize_inverse 1.0 for value <= goodLow and 0.0 for value >= badHigh,
\* normalize_direct 0.0 for value <= badLow and 1.0 for value >= goodHigh,
\* for every pair of bounds.
C4_AsStated ==
    Normalized =>
        /\ InUnit(call.out)
        /\ (call.value = None => call.out = Half)
        /\ (IsNum(call.value) /\ RLe(call.value, call.low) => call.out = AtLow)
        /\ (IsNum(call.value) /\ RLe(call.high, call.value) => call.out = AtHigh)

\* C4, amended: total with a result in [0,1] for every value and every pair
\* of bounds (equal and reversed ones included), 0.5 for a null value, the
\* low end's result for value <= low bound, and the high end's result for
\* value >= high bound when value is above the low bound (the low test is
\* made first).
C4_NormalizeTotal ==
    Normalized =>
        /\ InUnit(call.out)
        /\ (call.value = None => call.out = Half)
        /\ (IsNum(call.value) /\ RLe(call.value, call.low) => call.out = AtLow)
        /\ (IsNum(call.value) /\ RLt(call.low, call.value) /\ RLe(call.high, call.value)
               => call.out = AtHigh)

\* A value that is at or below the low bound and at or above the high bound.
C4_Witness ==
    /\ Normalized
    /\ IsNum(call.value)
    /\ RLe(call.high, call.value)
    /\ RLe(call.value, call.low)
    /\ call.out = AtLow

InRange(x) == RLe(call.low, x) /\ RLe(x, call.high)

Ordered == Normalized /\ IsNum(call.value) /\ InRange(call.value)
           /\ InRange(call.value2) /\ RLe(call.value, call.value2)

\* C5 as stated: over the interpolation range normalize_inverse is
\* non-decreasing and normalize_direct is non-increasing in the value.
C5_AsStated ==
    Ordered =>
        IF call.fn = "normalize_inverse"
        THEN RLe(call.out, call.out2)
        ELSE RLe(call.out2, call.out)

\* C5, amended: over the interpolation range (low bound below high bound)
\* normalize_inverse is non-increasing and normalize_direct is
\* non-decreasing in the value.
C5_Monotone ==
    Ordered =>
        IF call.fn = "normalize_inverse"
        THEN RLe(call.out2, call.out)
        ELSE RLe(call.out, call.out2)

\* Two values strictly inside the range whose results differ.
C5_Witness ==
    /\ Ordered
    /\ RLt(call.low, call.value)
    /\ RLt(call.value, call.value2)
    /\ RLt(call.value2, call.high)
    /\ call.out # call.out2

(***************************************************************************)
(* SpecStats: compute_basic_stats applied to a sequence of numbers.       *)
(***************************************************************************)
MaxLen == 4

StatValues == {R(-3), R(0), <<5, 2>>, R(100), R(250)}

RECURSIVE SeqsUpTo(_, _)
SeqsUpTo(S, n) ==
    IF n = 0 THEN {<<>>}
    ELSE LET shorter == SeqsUpTo(S, n - 1)
         IN  shorter \cup {Append(xs, x) : xs \in {ys \in shorter : Len(ys) = n - 1}, x \in S}

InitStats ==
    /\ data_file = NoFile
    /\ resp = NoResp
    /\ call \in [fn : {"args"}, values : SeqsUpTo(StatValues, MaxLen)]

ApplyBasicStats ==
    /\ call.fn = "args"
    /\ call' = [fn |-> "compute_basic_stats", values |-> call.values,
                out |-> compute_basic_stats(call.values)]
    /\ UNCHANGED <<data_file, resp>>

NextStats == ApplyBasicStats

SpecStats == InitStats /\ [][NextStats]_vars

AllEqual(xs) == \A i, j \in 1..Len(xs) : xs[i] = xs[j]

\* C6: count is the length; an empty sequence gives null fields; one value
\* gives avg = min = max = the value and std 0; from one value on
\* min <= avg <= max, std >= 0, and std = 0 exactly when all values are equal.
C6_BasicStats ==
    call.fn = "compute_basic_stats" =>
        LET xs == call.values
            st == call.out
        IN  /\ st.count = Len(xs)
            /\ Len(xs) = 0 =>
                   st.avg_ms = None /\ st.std_ms = None /\ st.min_ms = None /\ st.max_ms = None
            /\ Len(xs) = 1 =>
                   st.avg_ms = xs[1] /\ st.min_ms = xs[1] /\ st.max_ms = xs[1] /\ st.std_ms = R(0)
            /\ Len(xs) >= 1 =>
                   /\ \A i \in 1..Len(xs) : RLe(st.min_ms, xs[i]) /\ RLe(xs[i], st.max_ms)
                   /\ \E i \in 1..Len(xs) : st.min_ms = xs[i]
                   /\ \E i \in 1..Len(xs) : st.max_ms = xs[i]
                   /\ RLe(st.min_ms, st.avg_ms)
                   /\ RLe(st.avg_ms, st.max_ms)
                   /\ IsNum(st.std_ms)
                   /\ RLe(R(0), st.std_ms)
                   /\ (st.std_ms = R(0) <=> AllEqual(xs))

\* Statistics of several values that are not all equal.
C6_Witness ==
    /\ call.fn = "compute_basic_stats"
    /\ Len(call.values) >= 3
    /\ ~AllEqual(call.values)
    /\ RLt(R(0), call.out.std_ms)
    /\ RLt(call.out.min_ms, call.out.avg_ms)
    /\ RLt(call.out.avg_ms, call.out.max_ms)

(***************************************************************************)
(* SpecComment: the comment built from a triple of sub-scores.            *)
(***************************************************************************)
MaxScoreStep == 20

ScoreGrid == {R(5 * i) : i \in 0..MaxScoreStep}

InitComment ==
    /\ data_file = NoFile
    /\ resp = NoResp
    /\ call \in [fn : {"args"}, reading : ScoreGrid, reaction : ScoreGrid, code : ScoreGrid]

ApplyComment ==
    /\ call.fn = "args"
    /\ call' = [fn |-> "comment", reading |-> call.reading, reaction |-> call.reaction,
                code |-> call.code,
                out |-> Comment(call.reading, call.reaction, call.code)]
    /\ UNCHANGED <<data_file, resp>>

NextComment == ApplyComment

SpecComment == InitComment /\ [][NextComment]_vars

\* a + 10 < b and a + 10 < c, on the fractions' numerators and denominators
TrailsBoth(a, b, c) ==
    /\ (a[1] + 10 * a[2]) * b[2] < b[1] * a[2]
    /\ (a[1] + 10 * a[2]) * c[2] < c[1] * a[2]

Diagnostics == {WeakReading, WeakReaction, WeakCode, Balanced}

\* C3: the comment holds exactly one diagnostic sentence: the weak-task
\* sentence of the task whose score plus 10 is strictly below both other
\* scores, the "fairly balanced" sentence when there is no such task; scores
\* 90/50/55 give the "fairly balanced" sentence.
C3_OneDiagnostic ==
    call.fn = "comment" =>
        LET r == call.reading
            x == call.reaction
            c == call.code
            said == {i \in 1..Len(call.out) : call.out[i] \in Diagnostics}
        IN  /\ Cardinality(said) = 1
            /\ Len(call.out) = 2
            /\ call.out[2] \in Diagnostics
            /\ (call.out[2] = WeakReading <=> TrailsBoth(r, x, c))
            /\ (call.out[2] = WeakReaction <=> TrailsBoth(x, r, c))
            /\ (call.out[2] = WeakCode <=> TrailsBoth(c, r, x))
            /\ (call.out[2] = Balanced <=>
                    ~TrailsBoth(r, x, c) /\ ~TrailsBoth(x, r, c) /\ ~TrailsBoth(c, r, x))
            /\ (r = R(90) /\ x = R(50) /\ c = R(55) => call.out[2] = Balanced)

\* Scores 90/50/55: two tasks trail the first by more than 10, none trails both.
C3_Witness ==
    /\ call.fn = "comment"
    /\ call.reading = R(90)
    /\ call.reaction = R(50)
    /\ call.code = R(55)
    /\ call.out[2] = Balanced

(***************************************************************************)
(* SpecReaction: one session answering reaction questions, then summaries. *)
(***************************************************************************)
MaxReactions == 4

ReactionRun ==
    {Reaction("s1", 1, 200, TRUE), Reaction("s1", 2, 210, TRUE),
     Reaction("s1", 3, 600, TRUE), Reaction("s1", 4, 650, FALSE),
     Reaction("s1", 1, 0, TRUE), Reaction("s1", 2, 0, FALSE),
     Reaction("s1", 3, 210, TRUE), Reaction("s1", 4, 300, TRUE)}

NextReaction ==
    \/ /\ Stored < MaxReactions
       /\ \E body \in ReactionRun : receive_reaction(body)
    \/ summary("s1")

SpecReaction == Init /\ [][NextReaction]_vars

Events == load_all_events(data_file)

\* The place of stored record i when the records are ordered by
\* question_index, records with the same index in the order stored.
Rank(events, i) ==
    1 + Cardinality({j \in 1..Len(events) :
                         \/ RLt(events[j].question_index, events[i].question_index)
                         \/ /\ events[j].question_index = events[i].question_index
                            /\ j < i})

TimesInQuestionOrder(events) ==
    [r \in 1..Len(events) |->
        events[CHOOSE i \in 1..Len(events) : Rank(events, i) = r].reaction_time_ms]

Trend == resp.body.concentration.components.reaction_trend_component

Scenario3(events) ==
    {<<events[i].question_index, events[i].reaction_time_ms>> : i \in 1..Len(events)}
        = {<<R(1), R(200)>>, <<R(2), R(210)>>, <<R(3), R(600)>>, <<R(4), R(650)>>}

\* C8: the trend component is 0.5 with fewer than 4 timed reaction events or
\* a first-half mean <= 0; otherwise it is normalize_inverse(|mean(second
\* half) / mean(first half) - 1|, 0.1, 0.6) of the times ordered by
\* question_index and split at len // 2, whatever the stored order; the
\* times 200, 210, 600, 650 in question order give 0.0.
C8_Trend ==
    (IsSummary /\ resp.status = 200) =>
        LET times == TimesInQuestionOrder(Events)
            mid == Len(times) \div 2
            first == mean(SubSeq(times, 1, mid))
            second == mean(SubSeq(times, mid + 1, Len(times)))
        IN  /\ Len(times) < 4 => Trend = Half
            /\ (Len(times) >= 4 /\ RLe(first, R(0))) => Trend = Half
            /\ (Len(times) >= 4 /\ RLt(R(0), first)) =>
                   Trend = normalize_inverse(RAbs(RSub(FDiv(second, first), R(1))),
                                             <<1, 10>>, <<6, 10>>)
            /\ (Len(times) = 4 /\ Scenario3(Events)) => Trend = R(0)

\* The four events of the scenario, stored latest question first.
C8_Witness ==
    /\ IsSummary
    /\ resp.status = 200
    /\ LET events == Events
       IN  /\ Len(events) = 4
           /\ Scenario3(events)
           /\ events[1].question_index = R(4)
           /\ events[4].question_index = R(1)
    /\ Trend = R(0)

(***************************************************************************)
(* SpecCode: one session submitting code (and reading), then summaries.   *)
(***************************************************************************)
MaxCodes == 3

Typed(ex, len, starter, td) ==
    Code("s1", ex, CodeOk)
        @@ [code_length |-> len, starter_code_length |-> starter, typing_duration_ms |-> td]

CodeRun ==
    {Typed("add_two", R(120), R(20), R(20000)),
     Typed("add_two", R(120), R(60), R(20000)),
     Typed("add_two", R(20), R(60), R(20000)),
     Typed("add_two", R(20), R(20), R(1000)),
     Typed("reverse_string", R(120), R(20), R(0)),
     Typed("reverse_string", R(120), R(20), R(1000)),
     Typed("reverse_string", R(120), R(20), None),
     Typed("reverse_string", None, R(20), R(1000)),
     Code("s1", "reverse_string", CodeReverse)
         @@ [code_length |-> R(120), typing_duration_ms |-> R(1000)]}

NextCode ==
    \/ /\ Stored < MaxCodes
       /\ \E body \in CodeRun : receive_code(body)
    \/ /\ Stored < MaxCodes
       /\ receive_segment(Segment("s1", R(100)))
    \/ summary("s1")

SpecCode == Init /\ [][NextCode]_vars

\* The claim's inclusion rule
Contributes(e) ==
    /\ e.typing_duration_ms # None
    /\ e.code_length # None
    /\ e.starter_code_length # None
    /\ e.typing_duration_ms[1] > 0
    /\ e.code_length[1] * e.starter_code_length[2]
           > e.starter_code_length[1] * e.code_length[2]

\* (code_length - starter_code_length) / (typing_duration_ms / 1000), exact
Rate(e) ==
    LET delta == RSub(e.code_length, e.starter_code_length)
    IN  Rat(delta[1] * 1000 * e.typing_duration_ms[2], delta[2] * e.typing_duration_ms[1])

RECURSIVE RateSum(_, _)
RateSum(events, I) ==
    IF I = {} THEN R(0)
    ELSE LET i == CHOOSE k \in I : TRUE
         IN  RAdd(Rate(events[i]), RateSum(events, I \ {i}))

\* x is the exact value q rounded down to a multiple of 1/Scale
RoundedDown(x, q) == x # None /\ RLe(x, q) /\ RLt(q, RAdd(x, <<1, Scale>>))

\* The average typing rate a summary must report for the records at I.
RightAverage(events, avg, I) ==
    LET samples == {i \in I : Contributes(events[i])}
    IN  IF samples = {}
        THEN avg = None
        ELSE RoundedDown(avg, RMul(RateSum(events, samples), <<1, Cardinality(samples)>>))

\* C9: a submission contributes the sample (code_length -
\* starter_code_length) / (typing_duration_ms / 1000) exactly when the three
\* fields are present, the duration is > 0 and the difference is > 0; the
\* session's average typing rate is the mean of those samples, null without
\* any; each exercise's entry follows the same rule on its own submissions.
C9_TypingRate ==
    (IsSummary /\ resp.status = 200) =>
        LET events == Events
            submissions == {i \in 1..Len(events) : "exercise_id" \in DOMAIN events[i]}
            code == resp.body.code
        IN  /\ RightAverage(events, Get(code, "avg_typing_rate_chars_per_sec"), submissions)
            /\ RightAverage(
                   events,
                   resp.body.concentration.components.code_avg_typing_rate_chars_per_sec,
                   submissions)
            /\ DOMAIN code.per_exercise = {events[i].exercise_id : i \in submissions}
            /\ \A ex \in DOMAIN code.per_exercise :
                   RightAverage(events, code.per_exercise[ex].avg_typing_rate_chars_per_sec,
                                {i \in submissions : events[i].exercise_id = ex})
            /\ (\E i \in submissions :
                    /\ submissions = {i}
                    /\ events[i].code_length = R(120)
                    /\ events[i].starter_code_length = R(20)
                    /\ events[i].typing_duration_ms = R(20000))
                   => code.avg_typing_rate_chars_per_sec = R(5)

\* A session with a contributing submission, one whose length shrank and
\* one without timing, of two exercises.
C9_Witness ==
    /\ IsSummary
    /\ resp.status = 200
    /\ LET events == Events
       IN  /\ Len(events) = 3
           /\ \A i \in 1..3 : "exercise_id" \in DOMAIN events[i]
           /\ \E i, j, k \in 1..3 :
                  /\ Contributes(events[i])
                  /\ events[j].code_length # None
                  /\ events[j].starter_code_length # None
                  /\ RLt(events[j].code_length, events[j].starter_code_length)
                  /\ events[k].typing_duration_ms = None
                  /\ events[i].exercise_id # events[k].exercise_id
    /\ resp.body.code.avg_typing_rate_chars_per_sec # None

(***************************************************************************)
(* SpecSession: one session mixing the three tasks, then summaries.       *)
(***************************************************************************)
MaxMixed == 4

SessionSegments == {Segment("s1", R(0)), Segment("s1", R(100)), Segment("s1", R(300))}

SessionReactions == {Reaction("s1", 1, 200, TRUE), Reaction("s1", 2, 600, FALSE)}

SessionCodes ==
    {Typed("add_two", R(120), R(20), R(20000)) @@ [first_key_delay_ms |-> R(500)],
     Code("s1", "add_two", CodeSyntax) @@ [first_key_delay_ms |-> R(9000)],
     Typed("reverse_string", R(120), R(20), R(1000))}

NextSession ==
    \/ /\ Stored < MaxMixed
       /\ \E body \in SessionSegments : receive_segment(body)
    \/ /\ Stored < MaxMixed
       /\ \E body \in SessionReactions : receive_reaction(body)
    \/ /\ Stored < MaxMixed
       /\ \E body \in SessionCodes : receive_code(body)
    \/ summary("s1")

SpecSession == Init /\ [][NextSession]_vars

Profile == resp.body.concentration

InPercent(x) == IsNum(x) /\ RLe(R(0), x) /\ RLe(x, R(100))

\* C2: the three sub-scores and the overall score lie in [0,100], and the
\* overall score is 0.3 reading + 0.4 reaction + 0.3 code.
C2_Scores ==
    (IsSummary /\ resp.status = 200) =>
        /\ InPercent(Profile.reading_score)
        /\ InPercent(Profile.reaction_score)
        /\ InPercent(Profile.code_score)
        /\ InPercent(Profile.overall_score)
        /\ LET r == Profile.reading_score
               x == Profile.reaction_score
               c == Profile.code_score
               o == Profile.overall_score
           IN  10 * o[1] * r[2] * x[2] * c[2]
                   = o[2] * (3 * r[1] * x[2] * c[2] + 4 * x[1] * r[2] * c[2]
                             + 3 * c[1] * r[2] * x[2])

\* A session with all three tasks whose sub-scores differ.
C2_Witness ==
    /\ IsSummary
    /\ resp.status = 200
    /\ resp.body.reading.count_segments >= 1
    /\ resp.body.reaction.count_questions >= 1
    /\ resp.body.code.count_submissions >= 1
    /\ Profile.reading_score # Profile.reaction_score
    /\ Profile.reaction_score # Profile.code_score
    /\ RLt(R(0), Profile.reading_score)
    /\ RLt(Profile.reading_score, R(100))

\* cv is null when avg is null or <= 0, and otherwise std / avg (rounded
\* down to a multiple of 1/Scale)
RightCv(cv, avg, std) ==
    IF avg = None \/ avg[1] <= 0
    THEN cv = None
    ELSE /\ IsNum(cv)
         /\ RLe(RMul(cv, avg), std)
         /\ RLt(std, RMul(RAdd(cv, <<1, Scale>>), avg))

\* C7: the coefficient of variation of a task is std/avg, and null when avg
\* is null or <= 0, without a division by zero; with a null coefficient the
\* stability component is 0.5: the reading score is then 50, and so is the
\* reaction score of a session without reaction events.
C7_SafeCv ==
    (IsSummary /\ resp.status = 200) =>
        LET reading == resp.body.reading
            reaction == resp.body.reaction
            parts == Profile.components
        IN  /\ RightCv(parts.reading_stability_cv, reading.avg_reading_time_ms,
                       reading.std_reading_time_ms)
            /\ RightCv(parts.reaction_cv, reaction.avg_reaction_time_ms,
                       reaction.std_reaction_time_ms)
            /\ parts.reading_stability_cv = None => Profile.reading_score = R(50)
            /\ reaction.count_questions = 0 =>
                   parts.reaction_cv = None /\ Profile.reaction_score = R(50)

\* Reading segments that all took 0 ms, next to timed reaction events.
C7_Witness ==
    /\ IsSummary
    /\ resp.status = 200
    /\ resp.body.reading.count_segments >= 2
    /\ resp.body.reading.avg_reading_time_ms = R(0)
    /\ Profile.components.reading_stability_cv = None
    /\ Profile.reading_score = R(50)
    /\ resp.body.reaction.count_questions >= 2
    /\ Profile.components.reaction_cv # None

(***************************************************************************)
(* SpecStore: the store used by one caller at a time.  save_event is      *)
(* called with the events the three handlers pass to it, and              *)
(* get_events_by_session and the summary are asked for in between.         *)
(***************************************************************************)
MaxStored == 3

\* What receive_segment, receive_reaction and receive_code hand to save_event.
StoreEvents ==
    {SegmentEvent(Segment(s, R(100))) : s \in Sessions}
    \cup {ReactionEvent(Reaction(s, 1, 200, TRUE)) : s \in Sessions}
    \cup {GradedEvent(CodeSubmission(b), grade_code(CodeSubmission(b))) :
              b \in {Code("s1", "add_two", CodeOk), Code("s2", "add_two", CodeSyntax)}}

\* data_store.py 9-31
StoreSave(event) ==
    /\ data_file' = save_event(data_file, event)
    /\ call' = [fn |-> "save_event", event |-> event]
    /\ UNCHANGED resp

\* data_store.py 48-53
StoreQuery(session_id) ==
    /\ call' = [fn |-> "get_events_by_session", session_id |-> session_id,
                out |-> get_events_by_session(data_file, session_id)]
    /\ UNCHANGED <<data_file, resp>>

NextStore ==
    \/ /\ Stored < MaxStored
       /\ \E event \in StoreEvents : StoreSave(event)
    \/ \E session_id \in Sessions : StoreQuery(session_id)
    \/ \E session_id \in Sessions : summary(session_id)

SpecStore == Init /\ [][NextStore]_vars

\* The k-th smallest of a set of positions.
Nth(P, k) == CHOOSE p \in P : Cardinality({q \in P : q < p}) = k - 1

\* The stored records of a session, in the order they were appended.
RecordsOf(session_id) ==
    LET events == Events
        P == PositionsOf(session_id)
    IN  [k \in 1..Cardinality(P) |-> events[Nth(P, k)]]

\* C11: in a sequential run every change of the file is made by save_event,
\* which leaves every record stored before it unchanged and in its position
\* and adds the saved event as the last record; a step that calls
\* get_events_by_session or asks for a summary leaves the file as it was;
\* and get_events_by_session returns exactly the stored records of the
\* session asked for, in the order they were appended.
C11_AppendOnly ==
    /\ [][LET old == load_all_events(data_file)
              new == load_all_events(data_file')
          IN  /\ (call' # call /\ call'.fn = "save_event") => data_file' # data_file
              /\ data_file' # data_file =>
                     /\ call'.fn = "save_event"
                     /\ resp' = resp
                     /\ Len(new) = Len(old) + 1
                     /\ SubSeq(new, 1, Len(old)) = old
                     /\ new[Len(new)] = call'.event]_vars
    /\ [](call.fn = "get_events_by_session" => call.out = RecordsOf(call.session_id))

\* A query answered with the first and the third stored record, the second
\* belonging to the other session.
C11_Witness ==
    /\ call.fn = "get_events_by_session"
    /\ PositionsOf(call.session_id) = {1, 3}
    /\ Len(call.out) = 2
    /\ LET events == Events
       IN  /\ call.out[1] = events[1]
           /\ call.out[2] = events[3]

(***************************************************************************)
(* SpecGrade: code submissions of every kind the grader tells apart.      *)
(***************************************************************************)
MaxGraded == 2

GradeRun ==
    {Code("s1", ex, code) : ex \in {"add_two", "unknown_exercise"}, code \in CodeTexts}
    \cup {Code("s1", "reverse_string", CodeReverse), Code("s1", "reverse_string", CodeOk),
          Code("s1", "sum_list", CodeNoFunc)}
    \cup {[session_id |-> "s1", exercise_id |-> "add_two", code |-> CodeOk]}

NextGrade ==
    /\ Stored < MaxGraded
    /\ \E body \in GradeRun : receive_code(body)

SpecGrade == Init /\ [][NextGrade]_vars

GradingKeys == {"is_correct", "tests_passed", "tests_failed", "grading_error"}

\* The exercise is known, the code runs and defines the function.
Gradable(e) ==
    /\ e.exercise_id \in Exercises
    /\ ~ExecRaises(e.code)
    /\ e.exercise_id \in Namespace(e.code) \cap Callable(e.code)

\* Every test of the exercise was run on the submission and passed.
PassesAll(e) ==
    /\ Gradable(e)
    /\ \A i \in 1..Len(_get_tests_for_exercise(e.exercise_id).tests) :
           RunTest(e.code, e.exercise_id, i) = "pass"

Requests == {"r1", "r2"}

\* What the two clients post (main.py 82-99).
RaceEvents ==
    {SegmentEvent(Segment("s1", R(100))), ReactionEvent(Reaction("s1", 1, 200, TRUE))}

\* The file before the two requests: missing, or left by an earlier request.
RaceFiles == {NoFile} \cup {save_event(NoFile, e) : e \in RaceEvents}

Idle == [pc |-> "idle", event |-> <<>>, data |-> <<>>]

InitRace ==
    /\ data_file \in RaceFiles
    /\ call = [fn |-> "save_event", before |-> load_all_events(data_file),
               of |-> [r \in Requests |-> Idle]]
    /\ resp = [op |-> "requests", status |-> [r \in Requests |-> 0]]

At(r, pc) == call.of[r].pc = pc

Goto(r, pc) == call' = [call EXCEPT !.of[r].pc = pc]

\* main.py 82-99: the handler calls save_event(event.dict())
Receive(r) ==
    /\ At(r, "idle")
    /\ \E event \in RaceEvents :
           call' = [call EXCEPT !.of[r] = [pc |-> "exists", event |-> event, data |-> <<>>]]
    /\ UNCHANGED <<data_file, resp>>

\* data_store.py 15: if not DATA_FILE.exists()
Exists(r) ==
    /\ At(r, "exists")
    /\ Goto(r, IF data_file.exists THEN "load" ELSE "create")
    /\ UNCHANGED <<data_file, resp>>

\* data_store.py 16: open(DATA_FILE, "w")
CreateOpen(r) ==
    /\ At(r, "create")
    /\ data_file' = open_w(data_file)
    /\ Goto(r, "create_dump")
    /\ UNCHANGED resp

\* data_store.py 17: json.dump([], f), and the file is closed
CreateClose(r) ==
    /\ At(r, "create_dump")
    /\ data_file' = write_close(data_file, json_dump(<<>>))
    /\ Goto(r, "load")
    /\ UNCHANGED resp

\* data_store.py 20-21: data = json.load(f); a JSONDecodeError leaves the
\* handler and the request is answered with an error
Load(r) ==
    /\ At(r, "load")
    /\ LET loaded == json_load(data_file.text)
       IN  IF loaded.error
           THEN /\ Goto(r, "raised")
                /\ resp' = [resp EXCEPT !.status[r] = 500]
           ELSE /\ call' = [call EXCEPT !.of[r].pc = "append", !.of[r].data = loaded.data]
                /\ UNCHANGED resp
    /\ UNCHANGED data_file

\* data_store.py 24: data.append(event)
AppendEvent(r) ==
    /\ At(r, "append")
    /\ call' = [call EXCEPT !.of[r].pc = "write",
                            !.of[r].data = Append(call.of[r].data, call.of[r].event)]
    /\ UNCHANGED <<data_file, resp>>

\* data_store.py 27: open(DATA_FILE, "w")
WriteOpen(r) ==
    /\ At(r, "write")
    /\ data_file' = open_w(data_file)
    /\ Goto(r, "dump")
    /\ UNCHANGED resp

\* data_store.py 28: json.dump(data, f, indent=2), and the file is closed
WriteClose(r) ==
    /\ At(r, "dump")
    /\ data_file' = write_close(data_file, json_dump(call.of[r].data))
    /\ Goto(r, "return")
    /\ UNCHANGED resp

\* main.py 89, 99: return {"status": "saved"}
Return(r) ==
    /\ At(r, "return")
    /\ Goto(r, "done")
    /\ resp' = [resp EXCEPT !.status[r] = 200]
    /\ UNCHANGED data_file

NextRace ==
    \E r \in Requests :
        \/ Receive(r)
        \/ Exists(r)
        \/ CreateOpen(r)
        \/ CreateClose(r)
        \/ Load(r)
        \/ AppendEvent(r)
        \/ WriteOpen(r)
        \/ WriteClose(r)
        \/ Return(r)

SpecRace == InitRace /\ [][NextRace]_vars

\* Both requests have been answered "saved".
BothSaved == \A r \in Requests : resp.status[r] = 200

\* The file holds the events of both requests and every record stored
\* before them.
HoldsAll ==
    LET loaded == json_load(data_file.text)
        data == loaded.data
    IN  /\ ~loaded.error
        /\ \E i, j \in 1..Len(data) :
               /\ i # j
               /\ data[i] = call.of["r1"].event
               /\ data[j] = call.of["r2"].event
               /\ \A k \in 1..Len(call.before) :
                      \E m \in 1..Len(data) \ {i, j} : data[m] = call.before[k]

\* C13: once two interleaved save_event calls have both returned, the store
\* contains both events together with every record stored before them.
C13_NoAcknowledgedEventLost == BothSaved => HoldsAll
====
